---- MODULE Spec2Model ----
(***************************************************************************)
(* pycheck: the module-probing engine of src/src/pycheck/checker.py.       *)
(*                                                                         *)
(* A Python str is modelled as a sequence of one-character strings, so     *)
(* that startswith, strip, splitlines, replace, lower, split and the       *)
(* code-point order used by sorted() are computed, not assumed.            *)
(***************************************************************************)
EXTENDS Integers, Sequences, FiniteSets, TLC

(***************************************************************************)
(* Python str operations used by checker.py                                *)
(***************************************************************************)

\* The characters of the model in ascending code-point order (ASCII).
CodePoints ==
  << "\t", "\n", "\r", " ", "'", "-", ".", "/",
     "0", "1", "2", "3", "4", "5", "6", "7", "8", "9", ":",
     "A", "B", "C", "D", "E", "F", "G", "H", "I", "J", "K", "L", "M",
     "N", "O", "P", "Q", "R", "S", "T", "U", "V", "W", "X", "Y", "Z",
     "\\", "_",
     "a", "b", "c", "d", "e", "f", "g", "h", "i", "j", "k", "l", "m",
     "n", "o", "p", "q", "r", "s", "t", "u", "v", "w", "x", "y", "z" >>

\* Position of a character in the code-point order.
ord(c) == CHOOSE i \in 1..Len(CodePoints) : CodePoints[i] = c

\* The upper-case letters, and the lower-case letter of each at the same position.
UpperCase ==
  << "A", "B", "C", "D", "E", "F", "G", "H", "I", "J", "K", "L", "M",
     "N", "O", "P", "Q", "R", "S", "T", "U", "V", "W", "X", "Y", "Z" >>

LowerCase ==
  << "a", "b", "c", "d", "e", "f", "g", "h", "i", "j", "k", "l", "m",
     "n", "o", "p", "q", "r", "s", "t", "u", "v", "w", "x", "y", "z" >>

UpperToLower ==
  [c \in {UpperCase[i] : i \in 1..26} |->
     LowerCase[CHOOSE i \in 1..26 : UpperCase[i] = c]]

\* s.lower()
lower(s) ==
  [i \in 1..Len(s) |-> IF s[i] \in DOMAIN UpperToLower THEN UpperToLower[s[i]] ELSE s[i]]

\* str < str: lexicographic comparison by code point, a proper prefix first.
RECURSIVE StrLess(_, _)
StrLess(a, b) ==
  IF b = <<>> THEN FALSE
  ELSE IF a = <<>> THEN TRUE
  ELSE IF a[1] = b[1] THEN StrLess(Tail(a), Tail(b))
  ELSE ord(a[1]) < ord(b[1])

\* Mutant of sorted: sorted(S, key=str.lower), the order ignoring case.
RECURSIVE sorted_casefold(_)
sorted_casefold(S) ==
  IF S = {} THEN <<>>
  ELSE LET m == CHOOSE x \in S : \A y \in S : ~StrLess(lower(y), lower(x))
       IN  <<m>> \o sorted_casefold(S \ {m})

\* sorted(iterable of str): ascending by StrLess, smallest element first.
RECURSIVE sorted(_)
sorted(S) ==
  IF S = {} THEN <<>>
  ELSE LET m == CHOOSE x \in S : \A y \in S : y = x \/ StrLess(x, y)
       IN  <<m>> \o sorted(S \ {m})

\* s.startswith(p)
startswith(s, p) == Len(s) >= Len(p) /\ SubSeq(s, 1, Len(p)) = p

\* s.endswith(p)
endswith(s, p) == Len(s) >= Len(p) /\ SubSeq(s, Len(s) - Len(p) + 1, Len(s)) = p

\* The characters str.strip() removes.
Whitespace == {" ", "\t", "\n", "\r"}

RECURSIVE lstrip(_)
lstrip(s) ==
  IF s # <<>> /\ s[1] \in Whitespace THEN lstrip(Tail(s)) ELSE s

RECURSIVE rstrip(_)
rstrip(s) ==
  IF s # <<>> /\ s[Len(s)] \in Whitespace THEN rstrip(SubSeq(s, 1,
      Len(s) - 1)) ELSE s

\* s.strip()
strip(s) == rstrip(lstrip(s))

\* s.splitlines(): lines broken at \n, \r and \r\n, the breaks dropped, no
\* empty last line after a final break.
RECURSIVE splitlines_from(_, _, _, _)
splitlines_from(s, i, cur, acc) ==
  IF i > Len(s) THEN (IF cur = <<>> THEN acc ELSE Append(acc, cur))
  ELSE IF s[i] = "\r" /\ i < Len(s) /\ s[i + 1] = "\n"
       THEN splitlines_from(s, i + 2, <<>>, Append(acc, cur))
  ELSE IF s[i] \in {"\n", "\r"}
       THEN splitlines_from(s, i + 1, <<>>, Append(acc, cur))
  ELSE splitlines_from(s, i + 1, Append(cur, s[i]), acc)

splitlines(s) == splitlines_from(s, 1, <<>>, <<>>)

\* s.replace(old, new) for one-character old and new.
replace(s, old, new) == [i \in 1..Len(s) |-> IF s[i] = old THEN new ELSE s[i]]

\* s.split(sep) for a one-character sep: always at least one part.
RECURSIVE split_from(_, _, _, _, _)
split_from(s, sep, i, cur, acc) ==
  IF i > Len(s) THEN Append(acc, cur)
  ELSE IF s[i] = sep THEN split_from(s, sep, i + 1, <<>>, Append(acc, cur))
  ELSE split_from(s, sep, i + 1, Append(cur, s[i]), acc)

split(s, sep) == split_from(s, sep, 1, <<>>, <<>>)

\* The decimal digits, digit d at position d + 1.
Digits == << "0", "1", "2", "3", "4", "5", "6", "7", "8", "9" >>

\* str(n) for an int n >= 0: its decimal digits, most significant first.
RECURSIVE str(_)
str(n) ==
  IF n < 10 THEN << Digits[n + 1] >>
  ELSE Append(str(n \div 10), Digits[(n % 10) + 1])

\* int(s) for a string of decimal digits.
RECURSIVE int(_)
int(s) ==
  IF s = <<>> THEN 0
  ELSE 10 * int(SubSeq(s, 1, Len(s) - 1))
         + ((CHOOSE d \in 1..10 : Digits[d] = s[Len(s)]) - 1)

(***************************************************************************)
(* Python exceptions                                                       *)
(***************************************************************************)

\* No exception.
NoExc == "none"

\* The exception classes of the model, each with its direct base class.
ExcBase ==
  [e \in {"Exception", "ImportError", "ModuleNotFoundError", "AttributeError",
          "RuntimeError", "RecursionError", "ValueError", "LookupError",
          "KeyError", "OSError", "PermissionError", "MemoryError",
          "SystemError"} |->
     CASE e = "Exception"           -> "BaseException"
       [] e = "ImportError"         -> "Exception"
       [] e = "ModuleNotFoundError" -> "ImportError"
       [] e = "AttributeError"      -> "Exception"
       [] e = "RuntimeError"        -> "Exception"
       [] e = "RecursionError"      -> "RuntimeError"
       [] e = "ValueError"          -> "Exception"
       [] e = "LookupError"         -> "Exception"
       [] e = "KeyError"            -> "LookupError"
       [] e = "OSError"             -> "Exception"
       [] e = "PermissionError"     -> "OSError"
       [] e = "MemoryError"         -> "Exception"
       [] e = "SystemError"         -> "Exception"]

\* isinstance(e, cls): e is cls or a subclass of it.
RECURSIVE isinstance(_, _)
isinstance(e, cls) ==
  \/ e = cls
  \/ e \in DOMAIN ExcBase /\ isinstance(ExcBase[e], cls)

\* An except clause naming the classes in classes catches e.
Catches(classes, e) == \E cls \in classes : isinstance(e, cls)

\* repr(s) of a str without quotes, backslashes or control characters.
repr(s) == <<"'">> \o s \o <<"'">>

\* sub occurs in s as a contiguous substring (Python: sub in s).
Contains(s, sub) ==
  \E i \in 1..(Len(s) - Len(sub) + 1) : SubSeq(s, i, i + Len(sub) - 1) = sub

(***************************************************************************)
(* Constants of checker.py                                                 *)
(***************************************************************************)

OS == <<"O", "S">>

ALL == <<"A", "L", "L">>

SPECIFIC == <<"S", "P", "E", "C", "I", "F", "I", "C">>

\* The names _get_stdlib_modules never returns.
_SKIP ==
  {
    \* GUI / optional
    <<"t", "k", "i", "n", "t", "e", "r">>,
    <<"t", "u", "r", "t", "l", "e">>,
    <<"i", "d", "l", "e", "l", "i", "b">>,
    <<"t", "u", "r", "t", "l", "e", "d", "e", "m", "o">>,
    \* Test / dev
    <<"t", "e", "s", "t">>,
    <<"l", "i", "b", "2", "t", "o", "3">>,
    <<"e", "n", "s", "u", "r", "e", "p", "i", "p">>,
    <<"v", "e", "n", "v">>,
    <<"d", "i", "s", "t", "u", "t", "i", "l", "s">>,
    \* Unix-only
    <<"c", "u", "r", "s", "e", "s">>,
    <<"f", "c", "n", "t", "l">>,
    <<"g", "r", "p">>,
    <<"p", "o", "s", "i", "x">>,
    <<"p", "t", "y">>,
    <<"p", "w", "d">>,
    <<"r", "e", "a", "d", "l", "i", "n", "e">>,
    <<"r", "e", "s", "o", "u", "r", "c", "e">>,
    <<"s", "y", "s", "l", "o", "g">>,
    <<"t", "e", "r", "m", "i", "o", "s">>,
    <<"t", "t", "y">>,
    <<"s", "p", "w", "d">>,
    <<"c", "r", "y", "p", "t">>,
    \* Windows-only
    <<"m", "s", "v", "c", "r", "t">>,
    <<"w", "i", "n", "r", "e", "g">>,
    <<"w", "i", "n", "s", "o", "u", "n", "d">>,
    <<"n", "t">>,
    <<"m", "s", "i", "l", "i", "b">>,
    \* Easter eggs that have side effects
    <<"a", "n", "t", "i", "g", "r", "a", "v", "i", "t", "y">>,
    <<"t", "h", "i", "s">>,
    \* Other optional
    <<"d", "b", "m">>,
    <<"o", "s", "s", "a", "u", "d", "i", "o", "d", "e", "v">>,
    <<"n", "i", "s">>,
    <<"p", "o", "s", "i", "x", "p", "a", "t", "h">>,
    <<"n", "t", "p", "a", "t", "h">>
  }

\* The text of the ValueError raised for an unknown mode.
UnknownModeMessage(m) ==
  <<"U", "n", "k", "n", "o", "w", "n", " ", "m", "o", "d", "e", ":", " ">>
    \o repr(m) \o
  <<".", " ", "U", "s", "e", " ", "p", "y", "c", "h", "e", "c", "k", ".", "O",
      "S", " ", "o", "r", " ", "p", "y", "c", "h", "e", "c", "k", ".", "A",
      "L", "L", ".">>

(***************************************************************************)
(* _try_import                                                             *)
(***************************************************************************)

\* What importlib.import_module(name) can do: return, or raise one of these.
LoadOutcomes ==
  {"ok", "ModuleNotFoundError", "ImportError", "AttributeError",
   "RuntimeError", "RecursionError", "ValueError", "KeyError"}

\* The classes named by the except clause of _try_import.
TryImportCaught == {"ImportError", "AttributeError", "ModuleNotFoundError"}

\* Mutant of _try_import: the test of the name left out.
_try_import_unguarded(module_name, outcome) ==
  IF outcome = "ok"
  THEN [called |-> TRUE, ret |-> TRUE, exc |-> NoExc]
  ELSE IF Catches(TryImportCaught, outcome)
  THEN [called |-> TRUE, ret |-> FALSE, exc |-> NoExc]
  ELSE [called |-> TRUE, ret |-> FALSE, exc |-> outcome]

\* _try_import(module_name) when importlib.import_module would do `outcome`:
\* whether import_module was called, the value returned, the exception raised.
_try_import(module_name, outcome) ==
  IF module_name = <<>> \/ startswith(module_name, <<".">>)
       \/ startswith(module_name, <<"-">>)
  THEN [called |-> FALSE, ret |-> FALSE, exc |-> NoExc]
  ELSE IF outcome = "ok"
  THEN [called |-> TRUE, ret |-> TRUE, exc |-> NoExc]
  ELSE IF Catches(TryImportCaught, outcome)
  THEN [called |-> TRUE, ret |-> FALSE, exc |-> NoExc]
  ELSE [called |-> TRUE, ret |-> FALSE, exc |-> outcome]

(***************************************************************************)
(* _get_stdlib_modules                                                     *)
(***************************************************************************)

\* Mutant of stdlib_keep: the _SKIP test left out.
stdlib_keep_private_only(name) == ~startswith(name, <<"_">>)

\* The test of the filter loop: a name is kept unless private or in _SKIP.
stdlib_keep(name) == ~startswith(name, <<"_">>) /\ name \notin _SKIP

\* _get_stdlib_modules() in an interpreter where hasattr(sys,
\* "stdlib_module_names") is has_attr, the enumeration (the attribute, or the
\* pkgutil scan) reports `names`, and the fallback scan raises scan_exc.
_get_stdlib_modules(has_attr, names, scan_exc) ==
  IF ~has_attr /\ scan_exc # NoExc
  THEN [exc |-> scan_exc, value |-> <<>>]
  ELSE [exc |-> NoExc, value |-> SelectSeq(sorted(names), stdlib_keep)]

(***************************************************************************)
(* _get_all_installed_packages                                             *)
(***************************************************************************)

\* Names taken from a top_level.txt text.
top_level_names(top_level) ==
  LET lines == splitlines(strip(top_level))
      names == {strip(lines[i]) : i \in 1..Len(lines)}
  IN  {name \in names : name # <<>> /\ ~startswith(name, <<"_">>)}

\* Mutant of file_name: only "/" separates path segments.
file_name_posix_only(f) ==
  LET parts == split(f, "/")
      first == parts[1]
  IN  IF endswith(first, <<".", "p", "y">>)
      THEN SubSeq(first, 1, Len(first) - 3)
      ELSE first

\* The name inferred from one installed file f (str(f) given).
file_name(f) ==
  LET parts == split(replace(f, "\\", "/"), "/")
      first == parts[1]
  IN  IF endswith(first, <<".", "p", "y">>)
      THEN SubSeq(first, 1, Len(first) - 3)
      ELSE first

\* Names inferred from the files of a distribution.
files_names(files) ==
  {name \in {file_name(files[i]) : i \in 1..Len(files)} :
     name # <<>> /\ ~startswith(name, <<"_">>)}

\* Mutant of norm_name: the hyphens replaced, the case kept.
norm_name_keep_case(dist_name) == replace(dist_name, "-", "_")

\* The normalized distribution name.
norm_name(dist_name) == lower(replace(dist_name, "-", "_"))

\* Mutant of dist_step: no `continue` after a top_level.txt was used.
dist_step_no_continue(d, seen) ==
  LET seen0 == IF d.read_text = "str" /\ d.top_level # <<>>
               THEN seen \cup top_level_names(d.top_level)
               ELSE seen
  IN  IF d.files \notin {"list", "None"}
      THEN [exc |-> d.files, seen |-> seen0]
      ELSE LET seen1 == IF d.files = "list"
                        THEN seen0 \cup files_names(d.file_list)
                        ELSE seen0
           IN  IF d.metadata # "dict"
               THEN [exc |-> d.metadata, seen |-> seen1]
               ELSE IF d.Name # <<>>
               THEN [exc |-> NoExc, seen |-> seen1 \cup {norm_name(d.Name)}]
               ELSE [exc |-> NoExc, seen |-> seen1]

\* One iteration of the loop over distributions(): the set `seen` after the
\* distribution d, or the exception that escapes the loop body.
\* d.read_text, d.files, d.metadata are "str"/"list"/"dict", "None", or the
\* class of the exception the access raises.
dist_step(d, seen) ==
  IF d.read_text = "str" /\ d.top_level # <<>>
  THEN [exc |-> NoExc, seen |-> seen \cup top_level_names(d.top_level)]
  ELSE IF d.read_text \notin {"str", "None"} /\ ~Catches({"Exception"},
      d.read_text)
  THEN [exc |-> d.read_text, seen |-> seen]
  ELSE IF d.files \notin {"list", "None"}
  THEN [exc |-> d.files, seen |-> seen]
  ELSE LET seen1 == IF d.files = "list" THEN seen \cup files_names(d.file_list)
                    ELSE seen
       IN  IF d.metadata # "dict"
           THEN [exc |-> d.metadata, seen |-> seen1]
           ELSE IF d.Name # <<>>
           THEN [exc |-> NoExc, seen |-> seen1 \cup {norm_name(d.Name)}]
           ELSE [exc |-> NoExc, seen |-> seen1]

\* The loop over distributions(), from distribution i on.
RECURSIVE dist_loop(_, _, _)
dist_loop(ds, i, seen) ==
  IF i > Len(ds) THEN [exc |-> NoExc, seen |-> seen]
  ELSE LET r == dist_step(ds[i], seen)
       IN  IF r.exc # NoExc THEN r ELSE dist_loop(ds, i + 1, r.seen)

\* _get_all_installed_packages() when distributions() yields ds.
_get_all_installed_packages(ds) ==
  LET r == dist_loop(ds, 1, {})
  IN  IF r.exc # NoExc THEN [exc |-> r.exc, value |-> <<>>]
      ELSE [exc |-> NoExc, value |-> sorted(r.seen)]

(***************************************************************************)
(* Inputs: what the interpreter and the package metadata can hold          *)
(***************************************************************************)

\* Largest number of names the standard-library enumeration reports.
MaxStdlib == 4

\* Largest number of distributions distributions() yields.
MaxDists == 2

\* Names the standard-library enumeration can report: public names, a
\* private name, two _SKIP entries, and a name with an upper-case letter:
\* os, re, nt, this, _io, Zz.
StdlibUniverse ==
  {<<"o", "s">>, <<"r", "e">>, <<"n", "t">>, <<"t", "h", "i", "s">>, <<"_",
      "i", "o">>, <<"Z", "z">>}

\* Exceptions the fallback scan can raise: `import pkgutil` with the module
\* registry entry set to None, or pkgutil.iter_modules failing.
ScanOutcomes == {NoExc, "ModuleNotFoundError", "OSError"}

\* The values doSanityCheck is called with:
\* "OS", "ALL", "SPECIFIC", "os", "all", "".
Modes == {OS, ALL, SPECIFIC, <<"o", "s">>, <<"a", "l", "l">>, <<>>}

\* A distribution as _get_all_installed_packages reads it.
Dist(rt, top_level, fl, file_list, md, name) ==
  [read_text |-> rt, top_level |-> top_level, files |-> fl,
   file_list |-> file_list, metadata |-> md, Name |-> name]

\* A distribution with a top_level.txt:
\* top_level.txt = "Zed\n_priv\n\n  a \r\n-m\n", files = ["other/x.py"],
\* Name = "Foo-Bar".
TopLevelDist ==
  Dist("str", <<"Z", "e", "d", "\n", "_", "p", "r", "i", "v", "\n", "\n", " ",
      " ", "a", " ", "\r", "\n", "-", "m", "\n">>, "list", << <<"o", "t", "h",
      "e", "r", "/", "x", ".", "p", "y">> >>, "dict", <<"F", "o", "o", "-",
      "B", "a", "r">>)

\* A distribution without top_level.txt that lists its files:
\* files = ["a/x.py", "_p.py", "m.py"], Name = "Foo-Bar".
FilesDist ==
  Dist("None", <<>>, "list", << <<"a", "/", "x", ".", "p", "y">>, <<"_", "p",
      ".", "p", "y">>, <<"m", ".", "p", "y">> >>, "dict", <<"F", "o", "o", "-",
      "B", "a", "r">>)

\* Every access raises.
BrokenDist ==
  Dist("OSError", <<>>, "RuntimeError", <<>>, "ValueError", <<>>)

\* read_text returns None, iterating files raises, metadata is empty.
CrashOnIter ==
  Dist("None", <<>>, "RuntimeError", <<>>, "dict", <<>>)

\* read_text returns None, files holds generated names:
\* files = ["file_0.py"], Name = "infinite".
InfiniteFiles ==
  Dist("None", <<>>, "list", << <<"f", "i", "l", "e", "_", "0", ".", "p",
      "y">> >>, "dict", <<"i", "n", "f", "i", "n", "i", "t", "e">>)

\* read_text raises, files (with a backslash path) and metadata are sound:
\* files = ["w\\y.py"], Name = "a".
ReadErrorDist ==
  Dist("OSError", <<>>, "list", << <<"w", "\\", "y", ".", "p", "y">> >>,
      "dict", <<"a">>)

\* No top_level.txt, no files, metadata raises.
MetaErrorDist ==
  Dist("None", <<>>, "None", <<>>, "ValueError", <<>>)

\* An empty top_level.txt, no files, a name that starts with a hyphen:
\* top_level.txt = "", Name = "-X".
DashDist ==
  Dist("str", <<>>, "None", <<>>, "dict", <<"-", "X">>)

\* A top_level.txt of whitespace only:
\* top_level.txt = "  \n", files = ["q.py"], Name = "q".
BlankManifestDist ==
  Dist("str", <<" ", " ", "\n">>, "list", << <<"q", ".", "p", "y">> >>, "dict",
      <<"q">>)

\* No top_level.txt, no name, files with and without ".py", with both
\* separators, private and empty names:
\* files = [".py", "_x/y.py", "x.py\\z", "x"].
OddFilesDist ==
  Dist("None", <<>>, "list", << <<".", "p", "y">>, <<"_", "x", "/", "y", ".",
      "p", "y">>, <<"x", ".", "p", "y", "\\", "z">>, <<"x">> >>, "dict", <<>>)

DistShapes ==
  {TopLevelDist, FilesDist, BrokenDist, CrashOnIter, InfiniteFiles,
   ReadErrorDist, MetaErrorDist, DashDist, BlankManifestDist, OddFilesDist}

\* The sequences of at most n elements of S.
SeqsUpTo(S, n) == UNION {[1..k -> S] : k \in 0..n}

\* The elements of a sequence.
Range(s) == {s[i] : i \in 1..Len(s)}

(***************************************************************************)
(* State                                                                   *)
(***************************************************************************)

VARIABLES
  mode,        \* the argument of doSanityCheck
  pc,          \* "start", "os_loop", "all_loop", "returned", "raised"
  has_attr,    \* hasattr(sys, "stdlib_module_names"), as read by discovery
  reported,    \* the names the standard-library enumeration reported
  scan_exc,    \* the exception the fallback scan raised, or NoExc
  dists,       \* what distributions() yielded
  discovered,  \* whether a discovery function was called
  candidates,  \* stdlib_modules / packages
  idx,         \* position of the for loop in candidates
  passed,      \* the counter of the ALL loop
  result,      \* the value returned
  exc,         \* the class of the exception that left doSanityCheck
  exc_msg,     \* its message
  raised_in,   \* the function the exception was raised in
  attempted,   \* the names _try_import was called with, in call order
  imported,    \* the names importlib.import_module was called with
  loaded,      \* the names importlib.import_module returned a module for
  arg,         \* the argument of a direct call of _try_import
  fs_pc,       \* check_filesystem_access: "idle", "write", "read", "compare",
               \* "release", "returned", "raised"
  fs_stages,   \* the stages executed so far, each with its outcome
  fs_data,     \* the text probe.read_text returned
  fs_pending,  \* the exception in flight inside the try block
  fs_result,   \* the dict check_filesystem_access returned
  fs_exc,      \* the class of the exception that left check_filesystem_access
  ssl_pc,      \* check_ssl_support: "idle", "returned", "raised"
  ssl_load,    \* what `import ssl` did
  ssl_resolve, \* what the lookup of ssl.create_default_context did
  ssl_construct, \* what the call of create_default_context did
  ssl_result,  \* the dict check_ssl_support returned
  ssl_exc,     \* the class of the exception that left check_ssl_support
  lf_pc,       \* get_failed_imports: "idle", "returned", "raised"
  lf_env,      \* what import_module does for each candidate name
  lf_failed,   \* the list get_failed_imports returned
  lf_exc,      \* the class of the exception that left get_failed_imports
  cli_pc,      \* main: "idle", "check", "fs", "ssl", "returned", "raised"
  cli_modes,   \* the modes main has still to run, the current one first
  cli_checks,  \* for each mode run: the mode and whether its result was truthy
  exit_code    \* the exit_code of main

check_vars ==
  << mode, pc, has_attr, reported, scan_exc, dists, discovered, candidates,
     idx, passed, result, exc, exc_msg, raised_in, attempted, imported,
     loaded >>

fs_vars == << fs_pc, fs_stages, fs_data, fs_pending, fs_result, fs_exc >>

ssl_vars ==
  << ssl_pc, ssl_load, ssl_resolve, ssl_construct, ssl_result, ssl_exc >>

lf_vars == << lf_pc, lf_env, lf_failed, lf_exc >>

cli_vars == << cli_pc, cli_modes, cli_checks, exit_code >>

vars == << check_vars, arg, fs_vars, ssl_vars, lf_vars, cli_vars >>

\* Return values: a bool, a str, or nothing returned.
NoResult == [type |-> "none", b |-> FALSE, s |-> <<>>]

BoolResult(v) == [type |-> "bool", b |-> v, s |-> <<>>]

StrResult(s) == [type |-> "str", b |-> FALSE, s |-> s]

\* No exception in flight.
NoPending == [cls |-> NoExc, msg |-> <<>>]

\* No capability result returned.
NoCapability == [capability |-> "none", status |-> "none", detail |-> <<>>]

\* doSanityCheck not yet called.
CheckIdle ==
  /\ pc = "start"
  /\ has_attr = TRUE
  /\ reported = {}
  /\ scan_exc = NoExc
  /\ dists = <<>>
  /\ discovered = FALSE
  /\ candidates = <<>>
  /\ idx = 1
  /\ passed = 0
  /\ result = NoResult
  /\ exc = NoExc
  /\ exc_msg = <<>>
  /\ raised_in = "none"
  /\ attempted = <<>>
  /\ imported = <<>>
  /\ loaded = {}

\* check_filesystem_access not yet called.
FsIdle ==
  /\ fs_pc = "idle"
  /\ fs_stages = <<>>
  /\ fs_data = <<>>
  /\ fs_pending = NoPending
  /\ fs_result = NoCapability
  /\ fs_exc = NoExc

\* check_ssl_support not yet called.
SslIdle ==
  /\ ssl_pc = "idle"
  /\ ssl_load = "none"
  /\ ssl_resolve = "none"
  /\ ssl_construct = "none"
  /\ ssl_result = NoCapability
  /\ ssl_exc = NoExc

\* get_failed_imports not yet called.
LfIdle ==
  /\ lf_pc = "idle"
  /\ lf_env = << >>
  /\ lf_failed = << >>
  /\ lf_exc = NoExc

\* main not yet called.
CliIdle ==
  /\ cli_pc = "idle"
  /\ cli_modes = << >>
  /\ cli_checks = << >>
  /\ exit_code = 0

Init ==
  /\ mode \in Modes
  /\ CheckIdle
  /\ arg = <<>>
  /\ FsIdle
  /\ SslIdle
  /\ LfIdle
  /\ CliIdle

(***************************************************************************)
(* doSanityCheck                                                           *)
(***************************************************************************)

\* The call returns v.
Return(v) ==
  /\ pc' = "returned"
  /\ result' = v
  /\ UNCHANGED << exc, exc_msg, raised_in >>

\* The exception e, raised in function f with message msg, leaves the call.
Raise(e, msg, f) ==
  /\ pc' = "raised"
  /\ exc' = e
  /\ exc_msg' = msg
  /\ raised_in' = f
  /\ UNCHANGED result

\* One call _try_import(name) whose import_module does `outcome`: the
\* bookkeeping of the call.
Load(name, outcome) ==
  LET r == _try_import(name, outcome)
  IN  /\ attempted' = Append(attempted, name)
      /\ imported' = IF r.called THEN Append(imported, name) ELSE imported
      /\ loaded' = IF r.called /\ outcome = "ok" THEN loaded \cup {name} ELSE loaded

\* mode == OS: stdlib_modules = _get_stdlib_modules()
doSanityCheck_OS_discover ==
  /\ pc = "start"
  /\ mode = OS
  /\ \E ha \in BOOLEAN, sx \in ScanOutcomes :
     \E names \in {S \in SUBSET StdlibUniverse : Cardinality(S) <= MaxStdlib} :
       /\ (ha => sx = NoExc)
       /\ (sx # NoExc => names = {})
       /\ has_attr' = ha
       /\ scan_exc' = sx
       /\ reported' = names
       /\ discovered' = TRUE
       /\ LET r == _get_stdlib_modules(ha, names, sx)
          IN  IF r.exc # NoExc
              THEN /\ Raise(r.exc, <<>>, "_get_stdlib_modules")
                   /\ UNCHANGED << candidates, idx >>
              ELSE /\ candidates' = r.value
                   /\ idx' = 1
                   /\ pc' = "os_loop"
                   /\ UNCHANGED << result, exc, exc_msg, raised_in >>
  /\ UNCHANGED << arg, fs_vars, ssl_vars, lf_vars, cli_vars >>
  /\ UNCHANGED << mode, dists, passed, attempted, imported, loaded >>

\* Mutant of doSanityCheck_OS_step: a failed load does not end the loop.
doSanityCheck_OS_step_no_short_circuit ==
  /\ pc = "os_loop"
  /\ idx <= Len(candidates)
  /\ \E outcome \in LoadOutcomes :
       LET r == _try_import(candidates[idx], outcome)
       IN  /\ Load(candidates[idx], outcome)
           /\ IF r.exc # NoExc
              THEN Raise(r.exc, <<>>, "_try_import") /\ UNCHANGED idx
              ELSE /\ idx' = idx + 1
                   /\ UNCHANGED << pc, result, exc, exc_msg, raised_in >>
  /\ UNCHANGED << arg, fs_vars, ssl_vars, lf_vars, cli_vars >>
  /\ UNCHANGED << mode, has_attr, reported, scan_exc, dists, discovered,
                  candidates, passed >>

\* for mod in stdlib_modules: if not _try_import(mod): return False
doSanityCheck_OS_step ==
  /\ pc = "os_loop"
  /\ idx <= Len(candidates)
  /\ \E outcome \in LoadOutcomes :
       LET r == _try_import(candidates[idx], outcome)
       IN  /\ Load(candidates[idx], outcome)
           /\ IF r.exc # NoExc
              THEN Raise(r.exc, <<>>, "_try_import") /\ UNCHANGED idx
              ELSE IF ~r.ret
              THEN Return(BoolResult(FALSE)) /\ UNCHANGED idx
              ELSE /\ idx' = idx + 1
                   /\ UNCHANGED << pc, result, exc, exc_msg, raised_in >>
  /\ UNCHANGED << arg, fs_vars, ssl_vars, lf_vars, cli_vars >>
  /\ UNCHANGED << mode, has_attr, reported, scan_exc, dists, discovered,
                  candidates, passed >>

\* return True, after the loop
doSanityCheck_OS_return ==
  /\ pc = "os_loop"
  /\ idx > Len(candidates)
  /\ Return(BoolResult(TRUE))
  /\ UNCHANGED << arg, fs_vars, ssl_vars, lf_vars, cli_vars >>
  /\ UNCHANGED << mode, has_attr, reported, scan_exc, dists, discovered,
                  candidates, idx, passed, attempted, imported, loaded >>

\* Mutant of doSanityCheck_ALL_discover: discovery imports every name it
\* found before it returns the list.
doSanityCheck_ALL_discover_importing ==
  /\ pc = "start"
  /\ mode = ALL
  /\ \E ds \in SeqsUpTo(DistShapes, MaxDists) :
       /\ dists' = ds
       /\ discovered' = TRUE
       /\ LET r == _get_all_installed_packages(ds)
          IN  IF r.exc # NoExc
              THEN /\ Raise(r.exc, <<>>, "_get_all_installed_packages")
                   /\ UNCHANGED << candidates, idx, passed, imported,
                                   loaded >>
              ELSE /\ candidates' = r.value
                   /\ imported' = r.value
                   /\ loaded' = Range(r.value)
                   /\ idx' = 1
                   /\ passed' = 0
                   /\ pc' = "all_loop"
                   /\ UNCHANGED << result, exc, exc_msg, raised_in >>
  /\ UNCHANGED << arg, fs_vars, ssl_vars, lf_vars, cli_vars >>
  /\ UNCHANGED << mode, has_attr, reported, scan_exc, attempted >>

\* mode == ALL: packages = _get_all_installed_packages(); passed = 0
doSanityCheck_ALL_discover ==
  /\ pc = "start"
  /\ mode = ALL
  /\ \E ds \in SeqsUpTo(DistShapes, MaxDists) :
       /\ dists' = ds
       /\ discovered' = TRUE
       /\ LET r == _get_all_installed_packages(ds)
          IN  IF r.exc # NoExc
              THEN /\ Raise(r.exc, <<>>, "_get_all_installed_packages")
                   /\ UNCHANGED << candidates, idx, passed >>
              ELSE /\ candidates' = r.value
                   /\ idx' = 1
                   /\ passed' = 0
                   /\ pc' = "all_loop"
                   /\ UNCHANGED << result, exc, exc_msg, raised_in >>
  /\ UNCHANGED << arg, fs_vars, ssl_vars, lf_vars, cli_vars >>
  /\ UNCHANGED << mode, has_attr, reported, scan_exc, attempted, imported,
      loaded >>

\* Mutant of doSanityCheck_ALL_step: the loop walks the list discovery
\* would return now, not the list it returned before the loop.
doSanityCheck_ALL_step_live ==
  /\ pc = "all_loop"
  /\ LET live == _get_all_installed_packages(dists).value
     IN  /\ idx <= Len(live)
         /\ \E outcome \in LoadOutcomes :
              LET r == _try_import(live[idx], outcome)
              IN  /\ Load(live[idx], outcome)
                  /\ IF r.exc # NoExc
                     THEN Raise(r.exc, <<>>, "_try_import")
                            /\ UNCHANGED << idx, passed >>
                     ELSE /\ idx' = idx + 1
                          /\ passed' = IF r.ret THEN passed + 1 ELSE passed
                          /\ UNCHANGED << pc, result, exc, exc_msg,
                                          raised_in >>
  /\ UNCHANGED << arg, fs_vars, ssl_vars, lf_vars, cli_vars >>
  /\ UNCHANGED << mode, has_attr, reported, scan_exc, dists, discovered,
                  candidates >>

\* for pkg in packages: if _try_import(pkg): passed += 1
doSanityCheck_ALL_step ==
  /\ pc = "all_loop"
  /\ idx <= Len(candidates)
  /\ \E outcome \in LoadOutcomes :
       LET r == _try_import(candidates[idx], outcome)
       IN  /\ Load(candidates[idx], outcome)
           /\ IF r.exc # NoExc
              THEN Raise(r.exc, <<>>, "_try_import") /\ UNCHANGED << idx,
                  passed >>
              ELSE /\ idx' = idx + 1
                   /\ passed' = IF r.ret THEN passed + 1 ELSE passed
                   /\ UNCHANGED << pc, result, exc, exc_msg, raised_in >>
  /\ UNCHANGED << arg, fs_vars, ssl_vars, lf_vars, cli_vars >>
  /\ UNCHANGED << mode, has_attr, reported, scan_exc, dists, discovered,
      candidates >>

\* Mutant of doSanityCheck_ALL_return: the loop does not end after the
\* last package.
doSanityCheck_ALL_return_spins ==
  /\ pc = "all_loop"
  /\ idx > Len(candidates)
  /\ UNCHANGED vars

\* if passed == 0: return False; return str(passed)
doSanityCheck_ALL_return ==
  /\ pc = "all_loop"
  /\ idx > Len(candidates)
  /\ Return(IF passed = 0 THEN BoolResult(FALSE) ELSE StrResult(str(passed)))
  /\ UNCHANGED << arg, fs_vars, ssl_vars, lf_vars, cli_vars >>
  /\ UNCHANGED << mode, has_attr, reported, scan_exc, dists, discovered,
                  candidates, idx, passed, attempted, imported, loaded >>

\* Mutant of doSanityCheck_unknown: the function ends without the raise.
doSanityCheck_unknown_silent ==
  /\ pc = "start"
  /\ mode # OS
  /\ mode # ALL
  /\ Return(NoResult)
  /\ UNCHANGED << arg, fs_vars, ssl_vars, lf_vars, cli_vars >>
  /\ UNCHANGED << mode, has_attr, reported, scan_exc, dists, discovered,
                  candidates, idx, passed, attempted, imported, loaded >>

\* raise ValueError(f"Unknown mode: {mode!r}. Use pycheck.OS or pycheck.ALL.")
doSanityCheck_unknown ==
  /\ pc = "start"
  /\ mode # OS
  /\ mode # ALL
  /\ Raise("ValueError", UnknownModeMessage(mode), "doSanityCheck")
  /\ UNCHANGED << arg, fs_vars, ssl_vars, lf_vars, cli_vars >>
  /\ UNCHANGED << mode, has_attr, reported, scan_exc, dists, discovered,
                  candidates, idx, passed, attempted, imported, loaded >>

Next ==
  \/ doSanityCheck_OS_discover
  \/ doSanityCheck_OS_step
  \/ doSanityCheck_OS_return
  \/ doSanityCheck_ALL_discover
  \/ doSanityCheck_ALL_step
  \/ doSanityCheck_ALL_return
  \/ doSanityCheck_unknown

Spec == Init /\ [][Next]_vars

\* doSanityCheck runs on one thread that keeps executing: a step that can
\* be taken is taken.
SpecTermination == Init /\ [][Next]_vars /\ WF_vars(Next)

(***************************************************************************)
(* _try_import called directly                                             *)
(***************************************************************************)

\* The longest name _try_import is called with.
MaxNameLen == 2

\* The characters of those names.
NameAlphabet == {".", "-", "_", "a", "A"}

\* _try_import(arg)
_try_import_call ==
  /\ pc = "start"
  /\ \E outcome \in LoadOutcomes :
       LET r == _try_import(arg, outcome)
       IN  /\ Load(arg, outcome)
           /\ IF r.exc # NoExc
              THEN Raise(r.exc, <<>>, "_try_import")
              ELSE Return(BoolResult(r.ret))
  /\ UNCHANGED << arg, fs_vars, ssl_vars, lf_vars, cli_vars >>
  /\ UNCHANGED << mode, has_attr, reported, scan_exc, dists, discovered,
                  candidates, idx, passed >>

\* doSanityCheck is not called: mode is not read.
InitTryImport ==
  /\ mode = SPECIFIC
  /\ CheckIdle
  /\ arg \in SeqsUpTo(NameAlphabet, MaxNameLen)
  /\ FsIdle
  /\ SslIdle
  /\ LfIdle
  /\ CliIdle

NextTryImport == _try_import_call

SpecTryImport == InitTryImport /\ [][NextTryImport]_vars

(***************************************************************************)
(* check_filesystem_access                                                 *)
(***************************************************************************)

\* The text written to the probe file.
Payload == <<"p", "y", "c", "h", "e", "c", "k">>

\* The texts probe.read_text may return.
ReadData == {Payload, <<"C", "O", "R", "R", "U", "P", "T", "E", "D", "_", "D",
    "A", "T", "A">>, <<"p", "y", "c", "h", "e", "c", "k", "\n">>, <<>>}

\* The classes of the exceptions the temporary directory and the probe
\* file may raise.
FsExcs == {"PermissionError", "OSError", "ValueError", "RuntimeError"}

\* The messages of those exceptions.
FsMessages == {<<"A", "c", "c", "e", "s", "s", " ", "i", "s", " ", "d", "e",
    "n", "i", "e", "d">>, <<"N", "o", " ", "s", "p", "a", "c", "e", " ", "l",
    "e", "f", "t", " ", "o", "n", " ", "d", "e", "v", "i", "c", "e">>}

\* The message of the ValueError of the integrity test.
MismatchMessage == <<"R", "e", "a", "d", " ", "d", "a", "t", "a", " ", "d",
    "i", "d", " ", "n", "o", "t", " ", "m", "a", "t", "c", "h", " ", "w", "r",
    "i", "t", "t", "e", "n", " ", "d", "a", "t", "a", ".">>

\* The dict check_filesystem_access starts with.
FsOk ==
  [capability |-> "filesystem_access", status |-> "ok",
   detail |-> <<"T", "e", "m", "p", "o", "r", "a", "r", "y", " ", "d", "i",
       "r", "e", "c", "t", "o", "r", "y", " ", "w", "r", "i", "t", "e", "/",
       "r", "e", "a", "d", " ", "s", "u", "c", "c", "e", "e", "d", "e", "d",
       ".">>]

\* The detail of `except PermissionError`.
PermissionDetail ==
  <<"P", "e", "r", "m", "i", "s", "s", "i", "o", "n", " ", "d", "e", "n", "i",
      "e", "d", ":", " ", "C", "a", "n", "n", "o", "t", " ", "w", "r", "i",
      "t", "e", " ", "t", "o", " ", "s", "y", "s", "t", "e", "m", " ", "t",
      "e", "m", "p", " ", "d", "i", "r", "e", "c", "t", "o", "r", "y", ".">>

\* The detail of `except (OSError, ValueError) as e`.
IssueDetail(msg) == <<"F", "i", "l", "e", "s", "y", "s", "t", "e", "m", " ",
    "i", "s", "s", "u", "e", ":", " ">> \o msg

\* Mutant of fs_except: the (OSError, ValueError) clause sets the detail
\* and leaves the status.
fs_except_status_unset(p) ==
  IF p.cls = NoExc
  THEN [result |-> FsOk, exc |-> NoExc]
  ELSE IF Catches({"PermissionError"}, p.cls)
  THEN [result |-> [FsOk EXCEPT !.status = "fail",
                                !.detail = PermissionDetail],
        exc |-> NoExc]
  ELSE IF Catches({"OSError", "ValueError"}, p.cls)
  THEN [result |-> [FsOk EXCEPT !.detail = IssueDetail(p.msg)],
        exc |-> NoExc]
  ELSE [result |-> NoCapability, exc |-> p.cls]

\* The except clauses of check_filesystem_access applied to the exception p
\* that left the with statement: the dict returned, or the class of the
\* exception no clause catches.
fs_except(p) ==
  IF p.cls = NoExc
  THEN [result |-> FsOk, exc |-> NoExc]
  ELSE IF Catches({"PermissionError"}, p.cls)
  THEN [result |-> [FsOk EXCEPT !.status = "fail",
                                !.detail = PermissionDetail],
        exc |-> NoExc]
  ELSE IF Catches({"OSError", "ValueError"}, p.cls)
  THEN [result |-> [FsOk EXCEPT !.status = "warn",
                                !.detail = IssueDetail(p.msg)],
        exc |-> NoExc]
  ELSE [result |-> NoCapability, exc |-> p.cls]

\* The exception p leaves the with statement (p = NoPending: none does):
\* the except clauses and `return result`.
FsFinish(p) ==
  LET r == fs_except(p)
  IN  /\ fs_pending' = p
      /\ fs_result' = r.result
      /\ fs_exc' = r.exc
      /\ fs_pc' = IF r.exc = NoExc THEN "returned" ELSE "raised"

\* The stage `stage` was executed with outcome o ("ok" or a class).
FsLog(stage, o) ==
  fs_stages' = Append(fs_stages, [stage |-> stage, outcome |-> o])

\* tempfile.TemporaryDirectory() and its __enter__. An exception here
\* leaves the with statement before the context is entered: no __exit__.
check_filesystem_access_acquire ==
  /\ fs_pc = "idle"
  /\ \/ /\ FsLog("acquire", "ok")
        /\ fs_pc' = "write"
        /\ UNCHANGED << fs_pending, fs_result, fs_exc >>
     \/ \E e \in FsExcs, m \in FsMessages :
          /\ FsLog("acquire", e)
          /\ FsFinish([cls |-> e, msg |-> m])
  /\ UNCHANGED << check_vars, arg, ssl_vars, lf_vars, cli_vars, fs_data >>

\* Mutant of check_filesystem_access_write: an exception of write_text
\* leaves the function without __exit__.
check_filesystem_access_write_no_exit ==
  /\ fs_pc = "write"
  /\ \/ /\ FsLog("write", "ok")
        /\ fs_pc' = "read"
        /\ UNCHANGED << fs_pending, fs_result, fs_exc >>
     \/ \E e \in FsExcs, m \in FsMessages :
          /\ FsLog("write", e)
          /\ FsFinish([cls |-> e, msg |-> m])
  /\ UNCHANGED << check_vars, arg, ssl_vars, lf_vars, cli_vars, fs_data >>

\* probe.write_text("pycheck", encoding="utf-8")
check_filesystem_access_write ==
  /\ fs_pc = "write"
  /\ \/ /\ FsLog("write", "ok")
        /\ fs_pc' = "read"
        /\ UNCHANGED fs_pending
     \/ \E e \in FsExcs, m \in FsMessages :
          /\ FsLog("write", e)
          /\ fs_pending' = [cls |-> e, msg |-> m]
          /\ fs_pc' = "release"
  /\ UNCHANGED << check_vars, arg, ssl_vars, lf_vars, cli_vars, fs_data,
                  fs_result, fs_exc >>

\* data = probe.read_text(encoding="utf-8")
check_filesystem_access_read ==
  /\ fs_pc = "read"
  /\ \/ \E d \in ReadData :
          /\ FsLog("read", "ok")
          /\ fs_data' = d
          /\ fs_pc' = "compare"
          /\ UNCHANGED fs_pending
     \/ \E e \in FsExcs, m \in FsMessages :
          /\ FsLog("read", e)
          /\ fs_pending' = [cls |-> e, msg |-> m]
          /\ fs_pc' = "release"
          /\ UNCHANGED fs_data
  /\ UNCHANGED << check_vars, arg, ssl_vars, lf_vars, cli_vars, fs_result, fs_exc >>

\* if data != "pycheck": raise ValueError(...)
check_filesystem_access_compare ==
  /\ fs_pc = "compare"
  /\ IF fs_data # Payload
     THEN /\ FsLog("compare", "ValueError")
          /\ fs_pending' = [cls |-> "ValueError", msg |-> MismatchMessage]
     ELSE /\ FsLog("compare", "ok")
          /\ UNCHANGED fs_pending
  /\ fs_pc' = "release"
  /\ UNCHANGED << check_vars, arg, ssl_vars, lf_vars, cli_vars, fs_data,
                  fs_result, fs_exc >>

\* The __exit__ of the temporary directory, then the except clauses and
\* `return result`. __exit__ does not suppress the exception in flight; an
\* exception of the clean-up replaces it.
check_filesystem_access_release ==
  /\ fs_pc = "release"
  /\ \/ /\ FsLog("release", "ok")
        /\ FsFinish(fs_pending)
     \/ \E e \in FsExcs, m \in FsMessages :
          /\ FsLog("release", e)
          /\ FsFinish([cls |-> e, msg |-> m])
  /\ UNCHANGED << check_vars, arg, ssl_vars, lf_vars, cli_vars, fs_data >>

(***************************************************************************)
(* check_ssl_support                                                       *)
(***************************************************************************)

\* The classes of the exceptions `import ssl`, the lookup of
\* create_default_context and its call may raise.
SslExcs ==
  {"ModuleNotFoundError", "ImportError", "AttributeError", "RuntimeError",
   "OSError"}

\* The messages of those exceptions.
SslMessages == {<<>>, <<"n", "o", " ", "c", "i", "p", "h", "e", "r", "s">>}

\* exc.__class__.__name__
__name__(c) ==
  CASE c = "ModuleNotFoundError" -> <<"M", "o", "d", "u", "l", "e", "N", "o",
      "t", "F", "o", "u", "n", "d", "E", "r", "r", "o", "r">>
    [] c = "ImportError" -> <<"I", "m", "p", "o", "r", "t", "E", "r", "r", "o",
        "r">>
    [] c = "AttributeError" -> <<"A", "t", "t", "r", "i", "b", "u", "t", "e",
        "E", "r", "r", "o", "r">>
    [] c = "RuntimeError" -> <<"R", "u", "n", "t", "i", "m", "e", "E", "r",
        "r", "o", "r">>
    [] c = "OSError" -> <<"O", "S", "E", "r", "r", "o", "r">>

\* The dict check_ssl_support starts with.
SslOk ==
  [capability |-> "ssl", status |-> "ok",
   detail |-> <<"S", "S", "L", " ", "m", "o", "d", "u", "l", "e", " ", "a",
       "n", "d", " ", "d", "e", "f", "a", "u", "l", "t", " ", "c", "o", "n",
       "t", "e", "x", "t", " ", "a", "v", "a", "i", "l", "a", "b", "l", "e",
       ".">>]

\* The except clauses of check_ssl_support applied to the exception of
\* class e and message m that left the try block (e = NoExc: none did).
ssl_except(e, m) ==
  IF e = NoExc
  THEN SslOk
  ELSE IF Catches({"ImportError", "AttributeError"}, e)
  THEN [SslOk EXCEPT !.status = "fail",
                     !.detail = <<"S", "S", "L", " ", "u", "n", "a", "v", "a",
                         "i", "l", "a", "b", "l", "e", ":",
                         " ">> \o __name__(e)]
  ELSE [SslOk EXCEPT !.status = "warn",
                     !.detail = <<"S", "S", "L", " ", "i", "s", "s", "u", "e",
                         ":", " ">> \o __name__(e)
                                  \o <<":", " ">> \o m]

\* Mutant of ssl_escapes: no `except Exception` clause.
ssl_escapes_no_catch_all(e) ==
  IF e = NoExc \/ Catches({"ImportError", "AttributeError"}, e)
  THEN NoExc
  ELSE e

\* The class of the exception that no except clause of check_ssl_support
\* catches, NoExc when the exception e is caught (or e = NoExc).
ssl_escapes(e) ==
  IF e = NoExc \/ Catches({"ImportError", "AttributeError"}, e)
       \/ Catches({"Exception"}, e)
  THEN NoExc
  ELSE e

\* The first exception among the outcomes of the three steps of the try
\* block, NoExc when all are "ok".
ssl_raised(l, r, c) ==
  IF l # "ok" THEN l ELSE IF r # "ok" THEN r ELSE IF c # "ok" THEN c ELSE NoExc

\* check_ssl_support(): `import ssl` does l, the lookup of
\* ssl.create_default_context does r, its call does c; a step after a
\* raising one is not executed.
check_ssl_support ==
  /\ ssl_pc = "idle"
  /\ \E l \in {"ok"} \cup SslExcs, r \in {"ok", "skipped"} \cup SslExcs,
        c \in {"ok", "skipped"} \cup SslExcs, m \in SslMessages :
       /\ (r = "skipped") <=> (l # "ok")
       /\ (c = "skipped") <=> (r # "ok")
       /\ ssl_load' = l
       /\ ssl_resolve' = r
       /\ ssl_construct' = c
       /\ LET e == ssl_escapes(ssl_raised(l, r, c))
          IN  /\ ssl_exc' = e
              /\ ssl_pc' = IF e = NoExc THEN "returned" ELSE "raised"
              /\ ssl_result' = IF e = NoExc
                                THEN ssl_except(ssl_raised(l, r, c), m)
                                ELSE NoCapability
  /\ UNCHANGED << check_vars, arg, fs_vars, lf_vars, cli_vars >>

(***************************************************************************)
(* The two capability probes, each called once                             *)
(***************************************************************************)

\* doSanityCheck is not called: mode is not read.
InitProbes ==
  /\ mode = SPECIFIC
  /\ CheckIdle
  /\ arg = <<>>
  /\ FsIdle
  /\ SslIdle
  /\ LfIdle
  /\ CliIdle

NextProbes ==
  \/ check_filesystem_access_acquire
  \/ check_filesystem_access_write
  \/ check_filesystem_access_read
  \/ check_filesystem_access_compare
  \/ check_filesystem_access_release
  \/ check_ssl_support

SpecProbes == InitProbes /\ [][NextProbes]_vars

(***************************************************************************)
(* get_failed_imports, called after doSanityCheck in the same environment  *)
(***************************************************************************)

\* What import_module may do for a candidate doSanityCheck did not reach.
LfOutcomes == {"ok", "ImportError", "RuntimeError"}

\* The load of the name n fails when import_module does `outcome`.
LoadFailed(n, outcome) == ~_try_import(n, outcome).ret

\* The sweep of get_failed_imports over names, without short-circuit: the
\* names whose load failed, in order, up to the first exception that
\* leaves _try_import.
RECURSIVE failed_sweep(_, _, _)
failed_sweep(names, env, failed) ==
  IF names = << >>
  THEN [failed |-> failed, exc |-> NoExc]
  ELSE LET r == _try_import(Head(names), env[Head(names)])
       IN  IF r.exc # NoExc
           THEN [failed |-> failed, exc |-> r.exc]
           ELSE failed_sweep(Tail(names), env,
                             IF r.ret THEN failed
                             ELSE Append(failed, Head(names)))

\* What doSanityCheck saw import_module do for the name n it attempted.
SeenOutcome(n) ==
  IF n \in loaded
  THEN "ok"
  ELSE IF pc = "raised" /\ raised_in = "_try_import"
            /\ n = attempted[Len(attempted)]
  THEN exc
  ELSE "ImportError"

\* The candidates the sweep of get_failed_imports reaches: all of them
\* unless _try_import raised for the last name doSanityCheck attempted.
LfReached ==
  IF pc = "raised" THEN Range(attempted) ELSE Range(candidates)

\* The sweep of get_failed_imports in the environment env.
LfSweep(env) ==
  LET r == failed_sweep(candidates, env, << >>)
  IN  /\ lf_env' = env
      /\ lf_failed' = r.failed
      /\ lf_exc' = r.exc
      /\ lf_pc' = IF r.exc = NoExc THEN "returned" ELSE "raised"

\* get_failed_imports(mode): discovery as doSanityCheck ran it, then
\* _try_import on every candidate.
get_failed_imports ==
  /\ lf_pc = "idle"
  /\ pc \in {"returned", "raised"}
  /\ mode \in {OS, ALL}
  /\ IF raised_in \in {"_get_stdlib_modules", "_get_all_installed_packages"}
     THEN /\ lf_pc' = "raised"
          /\ lf_exc' = exc
          /\ UNCHANGED << lf_env, lf_failed >>
     ELSE \E free \in [LfReached \ Range(attempted) -> LfOutcomes] :
            /\ LET env == [n \in LfReached |->
                            IF n \in Range(attempted)
                            THEN SeenOutcome(n)
                            ELSE free[n]]
               IN  LfSweep(env)
  /\ UNCHANGED << check_vars, arg, fs_vars, ssl_vars, cli_vars >>

NextListFailed ==
  \/ Next
  \/ get_failed_imports

SpecListFailed == Init /\ [][NextListFailed]_vars

(***************************************************************************)
(* main (the command line)                                                 *)
(***************************************************************************)

\* The locals of a finished doSanityCheck call are dropped; the next call
\* is doSanityCheck(m).
CheckReset(m) ==
  /\ mode' = m
  /\ pc' = "start"
  /\ has_attr' = TRUE
  /\ reported' = {}
  /\ scan_exc' = NoExc
  /\ dists' = << >>
  /\ discovered' = FALSE
  /\ candidates' = << >>
  /\ idx' = 1
  /\ passed' = 0
  /\ result' = NoResult
  /\ exc' = NoExc
  /\ exc_msg' = << >>
  /\ raised_in' = "none"
  /\ attempted' = << >>
  /\ imported' = << >>
  /\ loaded' = {}

\* bool(result) for a value doSanityCheck returned.
truthy(r) == (r.type = "bool" /\ r.b) \/ (r.type = "str" /\ r.s # << >>)

\* parse_args and the list of modes: --os and --all select OS and ALL, no
\* flag selects OS.
main_start ==
  /\ cli_pc = "idle"
  /\ pc = "start"
  /\ \E os_flag \in BOOLEAN, all_flag \in BOOLEAN :
       LET modes0 == (IF os_flag THEN << OS >> ELSE << >>)
                       \o (IF all_flag THEN << ALL >> ELSE << >>)
           modes == IF modes0 = << >> THEN << OS >> ELSE modes0
       IN  /\ cli_modes' = modes
           /\ mode' = modes[1]
  /\ cli_pc' = "check"
  /\ exit_code' = 0
  /\ cli_checks' = << >>
  /\ UNCHANGED << pc, has_attr, reported, scan_exc, dists, discovered,
                  candidates, idx, passed, result, exc, exc_msg, raised_in,
                  attempted, imported, loaded >>
  /\ UNCHANGED << arg, fs_vars, ssl_vars, lf_vars >>

\* result = doSanityCheck(mode): the steps of the call.
main_doSanityCheck ==
  /\ cli_pc = "check"
  /\ Next

\* The rest of the loop body after doSanityCheck(mode) ended: exit_code = 1
\* if the result is falsy, then the next mode or the capability probes. An
\* exception of doSanityCheck leaves main.
main_check_done ==
  /\ cli_pc = "check"
  /\ pc \in {"returned", "raised"}
  /\ IF pc = "raised"
     THEN /\ cli_pc' = "raised"
          /\ UNCHANGED << check_vars, cli_modes, cli_checks, exit_code >>
     ELSE /\ cli_checks' = Append(cli_checks,
                                  [mode |-> mode, passed |-> truthy(result)])
          /\ exit_code' = IF ~truthy(result) THEN 1 ELSE exit_code
          /\ cli_modes' = Tail(cli_modes)
          /\ IF Len(cli_modes) > 1
             THEN CheckReset(cli_modes[2]) /\ cli_pc' = "check"
             ELSE CheckReset(mode) /\ cli_pc' = "fs"
  /\ UNCHANGED << arg, fs_vars, ssl_vars, lf_vars >>

\* capability = check_filesystem_access(): the steps of the call.
main_check_filesystem_access ==
  /\ cli_pc = "fs"
  /\ \/ check_filesystem_access_acquire
     \/ check_filesystem_access_write
     \/ check_filesystem_access_read
     \/ check_filesystem_access_compare
     \/ check_filesystem_access_release

\* if capability.get("status") == "fail": exit_code = 1. An exception of
\* check_filesystem_access leaves main.
main_fs_done ==
  /\ cli_pc = "fs"
  /\ fs_pc \in {"returned", "raised"}
  /\ IF fs_pc = "raised"
     THEN cli_pc' = "raised" /\ UNCHANGED exit_code
     ELSE /\ cli_pc' = "ssl"
          /\ exit_code' = IF fs_result.status = "fail" THEN 1 ELSE exit_code
  /\ UNCHANGED << check_vars, arg, fs_vars, ssl_vars, lf_vars, cli_modes,
                  cli_checks >>

\* ssl_capability = check_ssl_support()
main_check_ssl_support ==
  /\ cli_pc = "ssl"
  /\ check_ssl_support

\* if ssl_capability.get("status") == "fail": exit_code = 1, the report,
\* and `return exit_code`.
main_return ==
  /\ cli_pc = "ssl"
  /\ ssl_pc \in {"returned", "raised"}
  /\ IF ssl_pc = "raised"
     THEN cli_pc' = "raised" /\ UNCHANGED exit_code
     ELSE /\ cli_pc' = "returned"
          /\ exit_code' = IF ssl_result.status = "fail" THEN 1 ELSE exit_code
  /\ UNCHANGED << check_vars, arg, fs_vars, ssl_vars, lf_vars, cli_modes,
                  cli_checks >>

\* main is called once; mode is set by main_start.
InitCli ==
  /\ mode = SPECIFIC
  /\ CheckIdle
  /\ arg = << >>
  /\ FsIdle
  /\ SslIdle
  /\ LfIdle
  /\ CliIdle

NextCli ==
  \/ main_start
  \/ main_doSanityCheck
  \/ main_check_done
  \/ main_check_filesystem_access
  \/ main_fs_done
  \/ main_check_ssl_support
  \/ main_return

SpecCli == InitCli /\ [][NextCli]_vars

(***************************************************************************)
(* Other code changing the environment while doSanityCheck runs            *)
(***************************************************************************)

\* The distributions other code installs during the sweep.
InstalledMeanwhile == {InfiniteFiles}

\* Between two steps of the loop other code changes what the enumerations
\* would report now: a standard-library name appears or disappears, every
\* distribution is uninstalled, or a distribution is installed.
environment_mutates ==
  /\ pc \in {"os_loop", "all_loop"}
  /\ \/ /\ mode = OS
        /\ \E n \in StdlibUniverse :
             reported' = IF n \in reported THEN reported \ {n}
                         ELSE reported \cup {n}
        /\ UNCHANGED dists
     \/ /\ mode = ALL
        /\ \/ dists # << >> /\ dists' = << >>
           \/ \E d \in InstalledMeanwhile :
                Len(dists) < MaxDists /\ dists' = Append(dists, d)
        /\ UNCHANGED reported
  /\ UNCHANGED << arg, fs_vars, ssl_vars, lf_vars, cli_vars >>
  /\ UNCHANGED << mode, pc, has_attr, scan_exc, discovered, candidates, idx,
                  passed, result, exc, exc_msg, raised_in, attempted,
                  imported, loaded >>

NextMutation ==
  \/ Next
  \/ environment_mutates

SpecMutation == Init /\ [][NextMutation]_vars

(***************************************************************************)
(* Properties                                                              *)
(***************************************************************************)

\* The call has ended, by a return or by an exception.
Finished == pc \in {"returned", "raised"}

\* Discovery returned a candidate sequence (it did not raise).
DiscoveryReturned ==
  /\ discovered
  /\ raised_in \notin {"_get_stdlib_modules", "_get_all_installed_packages"}

\* C1: _try_import never propagates an exception: whatever import_module
\* raises, the call returns False, so no exception ever leaves doSanityCheck
\* from inside _try_import.
C1_TryImportNeverRaises == raised_in # "_try_import"

\* C2: for mode OS and for mode ALL, doSanityCheck never raises: whatever
\* discovery and the load attempts do, the call ends by returning a value.
C2_CheckNeverRaises ==
  mode \in {OS, ALL} =>
    /\ pc # "raised"
    /\ (pc = "returned" => result.type \in {"bool", "str"})

\* C3: doSanityCheck called with SPECIFIC or any value other than exactly
\* "OS" or "ALL" fails with a ValueError whose message names the given mode,
\* without running discovery or any load attempt, and returns no value.
C3_UnknownModeRaises ==
  mode \notin {OS, ALL} =>
    /\ pc \in {"start", "raised"}
    /\ (pc = "start" => ENABLED doSanityCheck_unknown)
    /\ (pc = "raised" =>
          /\ exc = "ValueError"
          /\ raised_in = "doSanityCheck"
          /\ Contains(exc_msg, repr(mode)))
    /\ result = NoResult
    /\ ~discovered
    /\ candidates = <<>>
    /\ attempted = <<>>
    /\ imported = <<>>
    /\ loaded = {}

\* C3 witness: the lower-case token "os" was rejected with a ValueError.
C3_Witness ==
  /\ mode = <<"o", "s">>
  /\ pc = "raised"
  /\ exc = "ValueError"

\* C4: doSanityCheck(OS) returns True if and only if every candidate of OS
\* discovery loads successfully; if at least one candidate fails to load it
\* returns False; with no candidates it returns True.
C4_OSResult ==
  (mode = OS /\ Finished /\ DiscoveryReturned) =>
    /\ (result = BoolResult(TRUE) <=> Range(candidates) \subseteq loaded)
    /\ (Range(attempted) \ loaded # {} => result = BoolResult(FALSE))
    /\ (candidates = <<>> => result = BoolResult(TRUE))

\* C5: doSanityCheck(OS) is fail-fast: _try_import is called on the
\* candidates in discovery order, once each, up to and including the first
\* one that fails, and on no candidate after the first failure.
C5_OSFailFast ==
  mode = OS =>
    /\ Len(attempted) <= Len(candidates)
    /\ \A i \in 1..Len(attempted) : attempted[i] = candidates[i]
    /\ \A i \in 1..(Len(attempted) - 1) :
         /\ attempted[i] \in loaded
         /\ StrLess(attempted[i], attempted[i + 1])
    /\ (pc = "os_loop" =>
          /\ idx = Len(attempted) + 1
          /\ Range(attempted) \subseteq loaded)
    /\ ((pc = "returned" /\ result = BoolResult(FALSE)) =>
          /\ attempted # <<>>
          /\ attempted[Len(attempted)] \notin loaded)
    /\ ((pc = "returned" /\ result = BoolResult(TRUE)) => attempted = candidates)

\* C5 witness: the second of three candidates failed and the call returned
\* False with the third never attempted.
C5_Witness ==
  /\ mode = OS
  /\ pc = "returned"
  /\ Len(candidates) = 3
  /\ Len(attempted) = 2
  /\ attempted[1] \in loaded
  /\ attempted[2] \notin loaded

\* C6: doSanityCheck(ALL) always completes the full sweep: _try_import is
\* called exactly once for every candidate of ALL discovery, and a failed
\* load never stops or skips the attempt on a later candidate.
C6_ALLFullSweep ==
  (mode = ALL /\ Finished /\ DiscoveryReturned) => attempted = candidates

\* C7: doSanityCheck(ALL) returns str(n) when n >= 1 candidates load
\* successfully and False when n = 0 (for no candidates as for candidates
\* that all fail); it never returns "0".
C7_ALLResult ==
  (mode = ALL /\ Finished /\ DiscoveryReturned) =>
    LET n == Cardinality(Range(candidates) \cap loaded)
    IN  /\ (n >= 1 => result.type = "str" /\ result.s # <<>> /\ int(result.s) = n)
        /\ (n = 0 => result = BoolResult(FALSE))
        /\ result # StrResult(<<"0">>)

\* C8: _get_stdlib_modules returns exactly the names the enumeration
\* reported, minus those starting with "_" and minus those in _SKIP: no
\* other name is dropped, none is added, none appears twice.
C8_OSDiscoveryFilter ==
  (mode = OS /\ DiscoveryReturned) =>
    /\ Range(candidates) = {n \in reported : n[1] # "_"} \ _SKIP
    /\ Len(candidates) = Cardinality(Range(candidates))

\* C8 witness: the enumeration reported a _SKIP entry, a private name and a
\* public name, and only the public name was returned.
C8_Witness ==
  /\ mode = OS
  /\ reported = {<<"n", "t">>, <<"_", "i", "o">>, <<"o", "s">>}
  /\ candidates = << <<"o", "s">> >>

\* C9: the sequences returned by _get_stdlib_modules and by
\* _get_all_installed_packages are strictly ascending in case-sensitive
\* lexicographic order, so no name occurs twice, even when several
\* distributions yield the same name.
C9_StrictlyAscending ==
  DiscoveryReturned =>
    \A i \in 1..(Len(candidates) - 1) :
      /\ candidates[i] # candidates[i + 1]
      /\ StrLess(candidates[i], candidates[i + 1])

\* C9 witness: two distributions both yield the name "a", and the returned
\* sequence holds an upper-case name before the lower-case ones.
C9_Witness ==
  /\ mode = ALL
  /\ pc = "all_loop"
  /\ dists = << TopLevelDist, FilesDist >>
  /\ Len(candidates) = 5
  /\ candidates[2] = <<"Z", "e", "d">>
  /\ candidates[3] = <<"a">>

\* C10: _get_stdlib_modules never raises: when the fallback scan fails it
\* returns an empty sequence.
C10_OSDiscoveryNeverRaises ==
  mode = OS =>
    /\ raised_in # "_get_stdlib_modules"
    /\ ((discovered /\ scan_exc # NoExc) => candidates = <<>> /\ pc # "raised")

\* No metadata access of the distribution d raises.
ValidDist(d) ==
  /\ d.read_text \in {"str", "None"}
  /\ d.files \in {"list", "None"}
  /\ d.metadata = "dict"

\* The distribution d has a non-empty top_level.txt.
HasManifest(d) == d.read_text = "str" /\ d.top_level # <<>>

\* C11: ALL discovery isolates failures per distribution: when one
\* distribution raises on a metadata access, _get_all_installed_packages
\* does not raise and its result holds every name derived from the valid
\* distributions before and after it.
C11_DiscoveryIsolatesDistributions ==
  (mode = ALL /\ discovered) =>
    /\ raised_in # "_get_all_installed_packages"
    /\ \A i \in 1..Len(dists) :
         ValidDist(dists[i]) =>
           dist_step(dists[i], {}).seen \subseteq Range(candidates)

\* C12 as claimed: for every distribution whose declared name is non-empty,
\* the result of _get_all_installed_packages holds its normalized name
\* (lower case, hyphens replaced by underscores), with or without a
\* top_level.txt.
C12_NormalizedNameAlways ==
  (mode = ALL /\ DiscoveryReturned) =>
    \A i \in 1..Len(dists) :
      (dists[i].metadata = "dict" /\ dists[i].Name # <<>>) =>
        lower(replace(dists[i].Name, "-", "_")) \in Range(candidates)

\* C12 amended: for every distribution whose declared name is non-empty
\* and that has no non-empty top_level.txt, the result of
\* _get_all_installed_packages holds its normalized name.
C12_NormalizedNameWithoutManifest ==
  (mode = ALL /\ DiscoveryReturned) =>
    \A i \in 1..Len(dists) :
      (dists[i].metadata = "dict" /\ dists[i].Name # <<>>
         /\ ~HasManifest(dists[i])) =>
        lower(replace(dists[i].Name, "-", "_")) \in Range(candidates)

\* C12 witness: a distribution named "Foo-Bar" without top_level.txt, next
\* to one with an empty top_level.txt, and "foo_bar" among the candidates.
C12_Witness ==
  /\ mode = ALL
  /\ pc = "all_loop"
  /\ dists = << DashDist, FilesDist >>
  /\ <<"f", "o", "o", "_", "b", "a", "r">> \in Range(candidates)

\* The names a top_level.txt text declares: its lines, each trimmed, that
\* are non-empty and do not start with "_".
ManifestLines(text) ==
  {name \in {strip(line) : line \in Range(splitlines(text))} :
     name # <<>> /\ name[1] # "_"}

\* C13: for a distribution with a non-empty top_level.txt the names derived
\* from it are exactly its trimmed lines that are non-empty and do not
\* start with "_", and no name is derived from its file list.
C13_ManifestNamesOnly ==
  (mode = ALL /\ DiscoveryReturned) =>
    \A i \in 1..Len(dists) :
      HasManifest(dists[i]) =>
        /\ dist_step(dists[i], {}).seen = ManifestLines(dists[i].top_level)
        /\ ManifestLines(dists[i].top_level) \subseteq Range(candidates)
        /\ (Len(dists) = 1 =>
              Range(candidates) = ManifestLines(dists[i].top_level))

\* C13 witness: the one distribution has a top_level.txt and a file
\* "other/x.py"; the candidates are the three public manifest lines.
C13_Witness ==
  /\ mode = ALL
  /\ pc = "all_loop"
  /\ dists = << TopLevelDist >>
  /\ candidates = << <<"-", "m">>, <<"Z", "e", "d">>, <<"a">> >>

\* C14: every name returned by _get_all_installed_packages is non-empty and
\* does not start with "_", also a name that comes from a distribution's
\* normalized declared name.
C14_CandidateNameInvariant ==
  (mode = ALL /\ DiscoveryReturned) =>
    \A i \in 1..Len(candidates) :
      candidates[i] # <<>> /\ candidates[i][1] # "_"

\* C15: _try_import returns False without calling import_module when the
\* name is empty or starts with "." or "-"; for every other name
\* import_module is called exactly once, with that name.
C15_TryImportGuard ==
  pc \in {"returned", "raised"} =>
    IF arg = <<>> \/ arg[1] \in {".", "-"}
    THEN pc = "returned" /\ result = BoolResult(FALSE) /\ imported = <<>>
    ELSE imported = << arg >>

\* C15 witness: _try_import("-a") returned False and import_module was not
\* called.
C15_Witness ==
  /\ arg = <<"-", "a">>
  /\ pc = "returned"
  /\ attempted = << arg >>
  /\ imported = <<>>

\* check_filesystem_access has returned or raised.
FsFinished == fs_pc \in {"returned", "raised"}

\* The outcome of the stage `stage` of check_filesystem_access: "ok", the
\* class it raised, or "none" when it was not executed.
FsOutcome(stage) ==
  IF \E i \in 1..Len(fs_stages) : fs_stages[i].stage = stage
  THEN fs_stages[CHOOSE i \in 1..Len(fs_stages) :
                   fs_stages[i].stage = stage].outcome
  ELSE "none"

\* A storage-layer error other than a denied permission.
OtherStorageError(o) ==
  /\ o \notin {"ok", "none"}
  /\ isinstance(o, "OSError")
  /\ ~isinstance(o, "PermissionError")

\* C16: check_filesystem_access returns status fail exactly when permission
\* is denied at acquire or write, warn exactly when another storage-layer
\* error occurs at acquire, write or read or the data read differs from the
\* payload, and ok exactly when the data read equals "pycheck".
C16_FsStatusMapping ==
  fs_pc = "returned" =>
    /\ fs_result.status = "fail" <=>
         \/ FsOutcome("acquire") = "PermissionError"
         \/ FsOutcome("write") = "PermissionError"
    /\ fs_result.status = "warn" <=>
         \/ OtherStorageError(FsOutcome("acquire"))
         \/ OtherStorageError(FsOutcome("write"))
         \/ OtherStorageError(FsOutcome("read"))
         \/ (FsOutcome("read") = "ok" /\ fs_data # Payload)
    /\ fs_result.status = "ok" <=>
         (FsOutcome("read") = "ok" /\ fs_data = Payload)

\* C17: no exception leaves check_filesystem_access, whatever class is
\* raised at the acquire, write, read, compare or release stage.
C17_FsNeverRaises == fs_pc # "raised" /\ fs_exc = NoExc

\* C18: the stages of check_filesystem_access occur in the order acquire,
\* write, read, compare, release, each of write, read and compare directly
\* after the success of the one before it; and when acquire succeeded, the
\* release stage is the last one executed before the call returns or
\* raises.
C18_FsPipelineOrder ==
  /\ \A i \in 1..Len(fs_stages) :
       LET st == fs_stages[i].stage
           prev == IF i > 1 THEN fs_stages[i - 1]
                   ELSE [stage |-> "none", outcome |-> "none"]
       IN  /\ st \in {"acquire", "write", "read", "compare", "release"}
           /\ st = "acquire" <=> i = 1
           /\ st = "write" => prev = [stage |-> "acquire", outcome |-> "ok"]
           /\ st = "read" => prev = [stage |-> "write", outcome |-> "ok"]
           /\ st = "compare" => prev = [stage |-> "read", outcome |-> "ok"]
           /\ st = "release" => i = Len(fs_stages) /\ FsFinished
  /\ (FsFinished /\ FsOutcome("acquire") = "ok") =>
       fs_stages[Len(fs_stages)].stage = "release"
  /\ fs_result # NoCapability => FsFinished

\* C18 witness: the data read did not match; the directory was released
\* after the comparison and the call returned.
C18_Witness ==
  /\ fs_pc = "returned"
  /\ fs_data = <<"C", "O", "R", "R", "U", "P", "T", "E", "D", "_", "D", "A",
      "T", "A">>
  /\ fs_stages = << [stage |-> "acquire", outcome |-> "ok"],
                    [stage |-> "write", outcome |-> "ok"],
                    [stage |-> "read", outcome |-> "ok"],
                    [stage |-> "compare", outcome |-> "ValueError"],
                    [stage |-> "release", outcome |-> "ok"] >>

\* C19: a mismatch of the data read yields status warn with the detail of
\* the mismatch, a denied permission at acquire yields status fail with
\* the detail of the denied permission, and the two details differ.
C19_FsDetailNamesCause ==
  /\ (FsFinished /\ FsOutcome("compare") = "ValueError") =>
       /\ fs_result.status = "warn"
       /\ fs_result.detail = IssueDetail(MismatchMessage)
  /\ (FsFinished /\ FsOutcome("acquire") = "PermissionError") =>
       /\ fs_result.status = "fail"
       /\ fs_result.detail = PermissionDetail
  /\ PermissionDetail # IssueDetail(MismatchMessage)

\* C20: check_ssl_support returns status fail exactly when `import ssl` or
\* the lookup of create_default_context raised, warn exactly when the call
\* of create_default_context raised (whatever the class), and ok exactly
\* when the call succeeded.
C20_SslStatusMapping ==
  ssl_pc = "returned" =>
    /\ ssl_result.status = "fail" <=>
         (ssl_load # "ok" \/ ssl_resolve \notin {"ok", "skipped"})
    /\ ssl_result.status = "warn" <=>
         ssl_construct \notin {"ok", "skipped"}
    /\ ssl_result.status = "ok" <=> ssl_construct = "ok"

\* C21: no exception leaves check_ssl_support: whenever `import ssl`, the
\* lookup of create_default_context or its call raises, the call returns a
\* dict with status fail or warn.
C21_SslNeverRaises ==
  /\ ssl_pc # "raised"
  /\ ssl_exc = NoExc
  /\ (ssl_pc = "returned" /\ ssl_raised(ssl_load, ssl_resolve,
                                       ssl_construct) # NoExc) =>
       ssl_result.status \in {"fail", "warn"}

\* C21 witness: the call of create_default_context raised RuntimeError and
\* check_ssl_support returned status warn.
C21_Witness ==
  /\ ssl_pc = "returned"
  /\ ssl_load = "ok"
  /\ ssl_resolve = "ok"
  /\ ssl_construct = "RuntimeError"
  /\ ssl_result.status = "warn"

\* A dict with exactly the keys capability, status and detail, the
\* capability `name`, a status among ok, warn and fail, and a str detail.
CapabilityResult(r, name) ==
  /\ DOMAIN r = {"capability", "status", "detail"}
  /\ r.capability = name
  /\ r.status \in {"ok", "warn", "fail"}
  /\ r.detail \in Seq(STRING)

\* C22: on every return path check_filesystem_access and check_ssl_support
\* return a dict with exactly the keys capability, status and detail, the
\* capability "filesystem_access" resp. "ssl", a status among ok, warn and
\* fail and a str detail; the status is ok only where no except clause ran.
C22_CapabilityResultShape ==
  /\ fs_pc = "returned" =>
       /\ CapabilityResult(fs_result, "filesystem_access")
       /\ fs_result.status = "ok" <=> fs_pending.cls = NoExc
  /\ ssl_pc = "returned" =>
       /\ CapabilityResult(ssl_result, "ssl")
       /\ ssl_result.status = "ok" <=>
            ssl_raised(ssl_load, ssl_resolve, ssl_construct) = NoExc

\* C22 witness: both probes returned, the filesystem probe through the
\* (OSError, ValueError) clause, the ssl probe through no clause.
C22_Witness ==
  /\ fs_pc = "returned"
  /\ fs_pending.cls = "OSError"
  /\ fs_result.status = "warn"
  /\ ssl_pc = "returned"
  /\ ssl_result = SslOk

\* C23: get_failed_imports(mode), for mode OS or ALL, runs discovery and
\* then a load attempt on every candidate without short-circuit and
\* returns exactly the candidates whose load failed; doSanityCheck(OS) is
\* True if and only if get_failed_imports(OS) is empty.
C23_ListFailed ==
  lf_pc # "idle" =>
    /\ lf_pc = "returned"
    /\ DOMAIN lf_env = Range(candidates)
    /\ lf_failed = SelectSeq(candidates,
                             LAMBDA n : LoadFailed(n, lf_env[n]))
    /\ mode = OS =>
         ((pc = "returned" /\ result = BoolResult(TRUE)) <=>
            lf_failed = << >>)

\* C24: main returns a non-zero exit code whenever a selected check is not
\* passing or a capability probe has status warn or fail, and 0 when every
\* selected check passes and both probes have status ok.
C24_ExitCode ==
  cli_pc = "returned" =>
    (exit_code # 0 <=>
       \/ \E i \in 1..Len(cli_checks) : ~cli_checks[i].passed
       \/ fs_result.status \in {"warn", "fail"}
       \/ ssl_result.status \in {"warn", "fail"})

\* An access of the distribution d that the loop body performs raises.
Erroring(d) ==
  \/ d.read_text \notin {"str", "None"}
  \/ /\ ~HasManifest(d)
     /\ (d.files \notin {"list", "None"} \/ d.metadata # "dict")

\* C25: when a metadata access of a distribution raises, discovery skips
\* to the next distribution: the names _get_all_installed_packages returns
\* are only those of the distributions no access of which raised.
C25_ErrorSkipsDistribution ==
  (mode = ALL /\ DiscoveryReturned) =>
    Range(candidates) =
      UNION {dist_step(dists[i], {}).seen :
               i \in {j \in 1..Len(dists) : ~Erroring(dists[j])}}

\* C26: whenever write_text succeeded and the text read equals the payload,
\* the status check_filesystem_access returns is ok, also when the
\* clean-up of the temporary directory raises a storage or permission
\* error.
C26_RoundTripIsOk ==
  (fs_pc = "returned" /\ FsOutcome("write") = "ok"
     /\ FsOutcome("read") = "ok" /\ fs_data = Payload) =>
    fs_result.status = "ok"

NothingLoaded == attempted = << >> /\ imported = << >> /\ loaded = {}

FirstSegment(f) ==
  LET seps == {i \in 1..Len(f) : f[i] \in {"/", "\\"}}
  IN  IF seps = {} THEN f
      ELSE SubSeq(f, 1, (CHOOSE i \in seps : \A j \in seps : i <= j) - 1)

\* The first segment of f without a trailing ".py".
SegmentName(f) ==
  LET seg == FirstSegment(f)
  IN  IF Len(seg) >= 3 /\ SubSeq(seg, Len(seg) - 2, Len(seg)) = <<".", "p",
      "y">>
      THEN SubSeq(seg, 1, Len(seg) - 3)
      ELSE seg

\* The names the files of the distribution d yield: per file its segment
\* name, kept if and only if non-empty and not starting with "_".
FileNames(d) ==
  {n \in {SegmentName(d.file_list[k]) : k \in 1..Len(d.file_list)} :
     n # << >> /\ n[1] # "_"}

\* C29: for a distribution without a usable top_level.txt that lists files
\* the names derived from the files are, per file, the first path segment
\* ("/" and "\" both separating) without a trailing ".py", added if and
\* only if non-empty and not starting with "_".
C29_FileNames ==
  (mode = ALL /\ discovered) =>
    \A i \in 1..Len(dists) :
      (~HasManifest(dists[i]) /\ dists[i].files = "list") =>
        /\ files_names(dists[i].file_list) = FileNames(dists[i])
        /\ dist_step(dists[i], {}).seen \ FileNames(dists[i])
             \subseteq {lower(replace(dists[i].Name, "-", "_"))}
        /\ DiscoveryReturned => FileNames(dists[i]) \subseteq Range(candidates)
        /\ (DiscoveryReturned /\ Len(dists) = 1 /\ dists[i].Name = << >>) =>
             Range(candidates) = FileNames(dists[i])

\* C29 witness: the files ".py", "_x/y.py", "x.py\z" and "x" of a
\* distribution without top_level.txt yield the one name "x".
C29_Witness ==
  /\ mode = ALL
  /\ pc = "all_loop"
  /\ dists = << OddFilesDist >>
  /\ files_names(OddFilesDist.file_list) = {<<"x">>}
  /\ candidates = << <<"x">> >>

\* C30: with a finite candidate list and load attempts that each end,
\* doSanityCheck(OS) and doSanityCheck(ALL) end: every call eventually
\* returns, unless an exception leaves it; OS has then made at most one
\* load attempt per candidate, ALL exactly one per candidate.
C30_CheckTerminates ==
  /\ <>(pc = "returned" \/ pc = "raised")
  /\ [](pc = "returned" =>
          /\ Len(attempted) <= Len(candidates)
          /\ attempted = SubSeq(candidates, 1, Len(attempted))
          /\ mode = ALL => attempted = candidates)

\* C30 witness: doSanityCheck(ALL) returned after one load attempt on each
\* of three candidates or more.
C30_Witness ==
  /\ mode = ALL
  /\ pc = "returned"
  /\ Len(candidates) >= 3
  /\ attempted = candidates
  /\ idx = Len(candidates) + 1

====
